---- MODULE Spec2Model ----
(***************************************************************************)
(* Authentication and session lifecycle of the notes application.          *)
(*                                                                         *)
(* Client: AuthProvider (rehydration, signIn, createUser, signOut), the    *)
(* zustand user store and the route guard useProtectedRoute.               *)
(* Server: the rate-limited /auth route group.                             *)
(*                                                                         *)
(* Values are modelled as strings and tuples of strings:                   *)
(*   objects      "null" | "u1" | "u2" (users passing userSchema) | "other"*)
(*   JSON texts   <<"json", obj>>, unparsable text <<"garbage">>,          *)
(*                and <<>> for "no value" (getSecureValue gives null)      *)
(***************************************************************************)
EXTENDS Integers, Sequences, FiniteSets, Bags, TLC

\* ---------------------------------------------------------------- bounds
\* Auth calls (signIn / createUser / signOut) that may be in flight at once.
MaxOps == 2
\* The same, in the specification that also runs the route guard.
MaxGuardOps == 1

\* ------------------------------------------------------------ value model
Null == "null"
Users == {"u1", "u2"}
OtherObject == "other"

NoValue == <<>>
Garbage == <<"garbage">>

\* JSON.stringify(res)
JSONstringify(obj) == <<"json", obj>>

\* JSON.parse(text): [ok, val]; ok = FALSE stands for the SyntaxError thrown.
JSONparse(text) ==
  IF Len(text) = 2 /\ text[1] = "json"
    THEN [ok |-> TRUE, val |-> text[2]]
    ELSE [ok |-> FALSE, val |-> Null]

\* userSchema.parse(obj): [ok, val]; ok = FALSE stands for the ZodError thrown.
userSchemaParse(obj) ==
  IF obj \in Users
    THEN [ok |-> TRUE, val |-> obj]
    ELSE [ok |-> FALSE, val |-> Null]

\* What the secure store may hold under USER_SESSION_KEY when the app starts.
StoredValues ==
  {NoValue, Garbage, JSONstringify(OtherObject)} \cup {JSONstringify(u) : u \in Users}

\* ------------------------------------------------------------------ state
VARIABLES
  store,        \* secure store, value under USER_SESSION_KEY
  user,         \* useUserStore: state.user
  initializing, \* AuthProvider: React state `initializing`
  getUserPc,    \* getUser: "reading" | "resume" | "resolved" | "rejected"
  userString,   \* getUser: the value getSecureValue resolved with (a local)
  ops,          \* the auth calls in flight, a bag of call records
  lastDone,     \* the auth call that returned last: what it did, what it toasted
  navReady,     \* navigationState?.key is set
  route,        \* current route
  guardDirty,   \* a dependency of the guard's effect changed since it last ran
  redirected,   \* what the guard's effect did when it last ran
  rateLimit,    \* server: the /auth group's RateLimitCounter of each key
  served,       \* server: per key, what the current window has seen
  failLimit,    \* server: the counters of the two groups set to countFailedRequest
  failServed,   \* server: per counter, what the current window has seen
  tokens,       \* server: the SingleUseToken records
  effects,      \* server: per token, how often its side effect was performed
  pending,      \* server: the confirm requests in flight, a bag of <<token, purpose>>
  answers,      \* server: per token, how many confirm requests got which answer
  sessions,     \* server: the Session records
  sweeps,       \* server: per user, how many logout-all calls were served
  ran,          \* server: the stages the last rate-limited request went through
  isSignUp,     \* useUserStore: the isSignUp flag
  captured,     \* a user value some component read from the store earlier
  setLog,       \* the setUser calls of the store's direct callers, in call order
  seen,         \* what a subscriber of the store was handed, in order
  mounted       \* the AuthProvider (and the screens under it) is mounted

authVars == <<store, user, initializing, getUserPc, userString, ops, lastDone, mounted>>
navVars == <<navReady, route, redirected>>
getUserVars == <<initializing, getUserPc, userString>>
storeVars == <<isSignUp, captured, setLog, seen>>
clientVars == <<authVars, navVars, guardDirty, storeVars>>
serverVars == <<rateLimit, served>>
limitedVars == <<failLimit, failServed>>
tokenVars == <<tokens, effects, pending, answers>>
sessionVars == <<sessions, sweeps>>
outerVars == <<storeVars, serverVars, limitedVars, tokenVars, sessionVars, ran>>
offClientVars == <<mounted, outerVars>>

OpKinds == {"signIn", "createUser", "signOut"}
NoCall == [kind |-> "none", log |-> <<>>, toast |-> "none"]

Routes == {"/", "/sign-in", "/sign-up"}

\* useSegments() for a route
Segments(r) ==
  CASE r = "/sign-in" -> <<"(auth)", "sign-in">>
    [] r = "/sign-up" -> <<"(auth)", "sign-up">>
    [] OTHER -> <<"(app)">>

InAuthGroup(segs) == Len(segs) > 0 /\ segs[1] = "(auth)"

\* ------------------------------------------------------------ user store
\* setUser(value) with a literal value and no isSignUp argument: set({ user }).
\* A changed user is a changed dependency of the guard's effect.
SetUser(v) ==
  /\ user' = v
  /\ guardDirty' = (guardDirty \/ v # user)

\* The store's direct callers hand setUser a value or an updater function,
\* with or without the isSignUp argument.
Updaters == {"swap", "orU1"}
Literals == {Null} \cup Users
IsSignUpArgs == {"undefined", "true", "false"}

\* How many setUser calls of direct callers are followed.
MaxSets == 3

\* the updater functions: (user: User | null) => User
ApplyUpdater(f, u) ==
  CASE f = "swap" -> IF u = "u1" THEN "u2" ELSE "u1"
    [] f = "orU1" -> IF u = Null THEN "u1" ELSE u

\* (mutant) the updater is handed a value read from the store earlier
UpdaterArgument_Captured(current, earlier) == earlier

\* what setUser hands the updater: get().user
UpdaterArgument(current, earlier) == current

StoreInit ==
  /\ isSignUp = "false"
  /\ captured = Null
  /\ setLog = <<>>
  /\ seen = <<>>

\* A component reads the user from the store.
ReadUser ==
  /\ captured # user
  /\ captured' = user
  /\ UNCHANGED <<isSignUp, setLog, seen>>
  /\ UNCHANGED <<authVars, navVars, guardDirty>>
  /\ UNCHANGED <<serverVars, limitedVars, tokenVars, sessionVars, ran>>

\* setUser(arg, isSignUpArg), arg = <<"function", f>> or <<"value", v>>; the
\* set(...) hands the new state to the subscribers before setUser returns.
StoreSetUser(arg, isSignUpArg) ==
  LET data == IF arg[1] = "function"
                THEN ApplyUpdater(arg[2], UpdaterArgument(user, captured))
                ELSE arg[2]
  IN
  /\ Len(setLog) < MaxSets
  /\ SetUser(data)
  /\ isSignUp' = IF isSignUpArg # "undefined" THEN isSignUpArg ELSE isSignUp
  /\ setLog' = Append(setLog, arg)
  /\ seen' = Append(seen, data)
  /\ UNCHANGED captured
  /\ UNCHANGED <<store, initializing, getUserPc, userString, ops, lastDone, mounted, navVars>>
  /\ UNCHANGED <<serverVars, limitedVars, tokenVars, sessionVars, ran>>

\* setIsSignUp(isSignUp)
SetIsSignUp(b) ==
  /\ b # isSignUp
  /\ isSignUp' = b
  /\ UNCHANGED <<captured, setLog, seen>>
  /\ UNCHANGED <<authVars, navVars, guardDirty>>
  /\ UNCHANGED <<serverVars, limitedVars, tokenVars, sessionVars, ran>>

\* ------------------------------------------------------------ secure store
\* Results of the secure-store calls as their callers see them.
SetSecureValueResults == {"ok", "threw"}
DeleteSecureValueResults == {"true", "false", "threw"}

\* setSecureValue(USER_SESSION_KEY, value) ending with `result`
SetSecureValue(value, result) ==
  store' = IF result = "ok" THEN value ELSE store

\* deleteSecureValue(USER_SESSION_KEY) ending with `result`
DeleteSecureValue(result) ==
  store' = IF result = "true" THEN NoValue ELSE store

\* ----------------------------------------------------------------- API
\* How API.post may reject: with an APIError, or with any other error.
ApiFailures == {"APIError", "NetworkError"}

\* (mutant) a catch block that swallows the error without a toast
SignInCatchToast_Silent(error) == "none"

\* the catch blocks of signIn and createUser
SignInCatchToast(error) ==
  IF error = "APIError" THEN "api error message" ELSE "Something went wrong"

\* ------------------------------------------------------------ client Init
\* The routes the app may be opened at.
StartRoutes == {"/", "/sign-in"}

ClientInit ==
  /\ store \in StoredValues
  /\ user = Null
  /\ initializing = TRUE
  /\ getUserPc = "reading"
  /\ userString = NoValue
  /\ ops = EmptyBag
  /\ lastDone = NoCall
  /\ navReady = FALSE
  /\ route \in StartRoutes
  /\ guardDirty = TRUE
  /\ redirected = "none"
  /\ mounted = TRUE
  /\ StoreInit

\* ------------------------------------------------------------ rehydration
\* getUser, first half: getSecureValue(USER_SESSION_KEY) resolves.
GetUserRead ==
  /\ getUserPc = "reading"
  /\ userString' = store
  /\ getUserPc' = "resume"
  /\ UNCHANGED <<store, user, initializing, ops, lastDone, navVars, guardDirty>>
  /\ UNCHANGED offClientVars

\* Whether getUser gets past the parse of a non-empty userString.
GetUserParses(text) ==
  /\ JSONparse(text).ok
  /\ userSchemaParse(JSONparse(text).val).ok

\* getUser, second half, and the .finally(() => setInitializing(false)).
GetUserResume ==
  /\ getUserPc = "resume"
  /\ initializing' = FALSE
  /\ IF userString = NoValue
       THEN /\ getUserPc' = "resolved"
            /\ UNCHANGED <<user, guardDirty>>
       ELSE IF GetUserParses(userString)
         THEN /\ SetUser(userSchemaParse(JSONparse(userString).val).val)
              /\ getUserPc' = "resolved"
         ELSE \* JSON.parse or userSchema.parse throws: the promise rejects
              /\ getUserPc' = "rejected"
              /\ UNCHANGED <<user, guardDirty>>
  /\ userString' = NoValue
  /\ UNCHANGED <<store, ops, lastDone, navVars>>
  /\ UNCHANGED offClientVars

\* ---------------------------------------------------------- auth calls
\* A call in flight: its kind, the await it is suspended at (pc), the API's
\* response (res), the result of the secure-store call it awaited (ret), and
\* the log of what it has done so far, in order.
Calls == BagToSet(ops)

\* call c moves on to the await `pc`
Continue(c, pc, res, ret, done) ==
  ops' = (ops (-) SetToBag({c})) (+)
         SetToBag({[kind |-> c.kind, pc |-> pc, res |-> res, ret |-> ret,
                    log |-> c.log \o done]})

\* call c returns
Return(c, done, message) ==
  /\ ops' = ops (-) SetToBag({c})
  /\ lastDone' = [kind |-> c.kind, log |-> c.log \o done, toast |-> message]

\* A consumer of the context calls signIn, createUser or signOut: the call
\* runs up to its first await, the API.post. The provider renders its
\* children only once `initializing` is false.
Invoke(k, limit) ==
  /\ mounted
  /\ ~initializing
  /\ BagCardinality(ops) < limit
  /\ ops' = ops (+) SetToBag({[kind |-> k, pc |-> "api", res |-> Null,
                               ret |-> "none", log |-> <<>>]})
  /\ UNCHANGED <<store, user, getUserVars, lastDone, navVars, guardDirty>>
  /\ UNCHANGED offClientVars

\* signIn / createUser: API.post resolves with res, and
\* setSecureValue(USER_SESSION_KEY, JSON.stringify(res)) is called.
SignInApiOk(c, res) ==
  /\ c.kind \in {"signIn", "createUser"}
  /\ c.pc = "api"
  /\ Continue(c, "store", res, "none", <<"api">>)
  /\ UNCHANGED <<store, user, getUserVars, lastDone, navVars, guardDirty>>
  /\ UNCHANGED offClientVars

\* signIn / createUser: API.post rejects; the catch block toasts.
SignInApiFail(c, error) ==
  /\ c.kind \in {"signIn", "createUser"}
  /\ c.pc = "api"
  /\ Return(c, <<"toast">>, SignInCatchToast(error))
  /\ UNCHANGED <<store, user, getUserVars, navVars, guardDirty>>
  /\ UNCHANGED offClientVars

\* signIn / createUser: the secure store finishes the write.
SignInWrite(c, result) ==
  /\ c.kind \in {"signIn", "createUser"}
  /\ c.pc = "store"
  /\ SetSecureValue(JSONstringify(c.res), result)
  /\ Continue(c, "resume", c.res, result, IF result = "ok" THEN <<"write">> ELSE <<>>)
  /\ UNCHANGED <<user, getUserVars, lastDone, navVars, guardDirty>>
  /\ UNCHANGED offClientVars

\* (mutant) a failed write is not noticed: the call goes on to setUser
SignInWriteSettled_IgnoresFailure(ret) == TRUE

\* `await setSecureValue(...)` continues with the next statement (it throws
\* otherwise).
SignInWriteSettled(ret) == ret = "ok"

\* signIn / createUser: the call continues after the await: setUser(res),
\* or the catch block.
SignInResume(c) ==
  /\ c.kind \in {"signIn", "createUser"}
  /\ c.pc = "resume"
  /\ IF SignInWriteSettled(c.ret)
       THEN /\ SetUser(c.res)
            /\ Return(c, <<"setUser">>, "none")
       ELSE /\ Return(c, <<"toast">>, SignInCatchToast("Error"))
            /\ UNCHANGED <<user, guardDirty>>
  /\ UNCHANGED <<store, getUserVars, navVars>>
  /\ UNCHANGED offClientVars

\* signOut: API.post("/v1/auth/logout") resolves, and
\* deleteSecureValue(USER_SESSION_KEY) is called.
SignOutApiOk(c) ==
  /\ c.kind = "signOut"
  /\ c.pc = "api"
  /\ Continue(c, "delete", Null, "none", <<"api", "deleteCall">>)
  /\ UNCHANGED <<store, user, getUserVars, lastDone, navVars, guardDirty>>
  /\ UNCHANGED offClientVars

\* signOut: API.post rejects; the catch block toasts.
SignOutApiFail(c) ==
  /\ c.kind = "signOut"
  /\ c.pc = "api"
  /\ Return(c, <<"toast">>, "Failed to logout")
  /\ UNCHANGED <<store, user, getUserVars, navVars, guardDirty>>
  /\ UNCHANGED offClientVars

\* signOut: the secure store finishes the delete.
SignOutDelete(c, result) ==
  /\ c.kind = "signOut"
  /\ c.pc = "delete"
  /\ DeleteSecureValue(result)
  /\ Continue(c, "resume", Null, result, IF result = "true" THEN <<"deleted">> ELSE <<>>)
  /\ UNCHANGED <<user, getUserVars, lastDone, navVars, guardDirty>>
  /\ UNCHANGED offClientVars

\* (mutant) the `if (!deleted) throw` is missing
SignOutDeleted_IgnoresResult(ret) == ret # "threw"

\* signOut gets past `if (!deleted) throw` (and the await did not throw).
SignOutDeleted(ret) == ret = "true"

\* signOut: the call continues after the await: setUser(null), or the catch.
SignOutResume(c) ==
  /\ c.kind = "signOut"
  /\ c.pc = "resume"
  /\ IF SignOutDeleted(c.ret)
       THEN /\ SetUser(Null)
            /\ Return(c, <<"setUser">>, "none")
       ELSE /\ Return(c, <<"toast">>, "Failed to logout")
            /\ UNCHANGED <<user, guardDirty>>
  /\ UNCHANGED <<store, getUserVars, navVars>>
  /\ UNCHANGED offClientVars

\* ---- what the calls send, and what the routes take
\* The request a call hands API.post: the path and what it passes as data.
RequestOf(kind) ==
  CASE kind = "signIn" -> [path |-> "/v1/auth/login", body |-> "credentials"]
    [] kind = "createUser" -> [path |-> "/v1/auth/register", body |-> "credentials"]
    [] kind = "signOut" -> [path |-> "/v1/auth/logout", body |-> "none"]

\* The body each route validates a request against: register and login take
\* the credentials, logout the session identifier.
RouteBody(path) ==
  CASE path = "/v1/auth/login" -> "credentials"
    [] path = "/v1/auth/register" -> "credentials"
    [] path = "/v1/auth/logout" -> "sessionId"

\* The route's validation lets the request through to its controller.
RouteAccepts(req) == req.body = RouteBody(req.path)

\* signOut with no failure of the network or of the store: API.post settles
\* with what the server answers to the request signOut sent.
LogoutAnswered(c) ==
  IF RouteAccepts(RequestOf("signOut")) THEN SignOutApiOk(c) ELSE SignOutApiFail(c)

\* The process is killed and the app started again, at route r: memory is
\* lost, the secure store is kept.
AppRestart(r) ==
  /\ user' = Null
  /\ initializing' = TRUE
  /\ getUserPc' = "reading"
  /\ userString' = NoValue
  /\ ops' = EmptyBag
  /\ lastDone' = NoCall
  /\ navReady' = FALSE
  /\ route' = r
  /\ guardDirty' = TRUE
  /\ redirected' = "none"
  /\ mounted' = TRUE
  /\ UNCHANGED store
  /\ UNCHANGED outerVars

\* The provider is unmounted, with the screens under it; the calls in flight
\* and a getUser in flight go on: nothing cancels their promises, and the
\* store they publish to is a module-level one.
Teardown ==
  /\ mounted
  /\ mounted' = FALSE
  /\ UNCHANGED <<store, user, getUserVars, ops, lastDone, navVars, guardDirty>>
  /\ UNCHANGED outerVars

\* ------------------------------------------------------------ route guard
\* (mutant) the early return on a missing navigationState.key is missing
GuardDecision_NoReadyCheck(u, segs, ready) ==
  IF u = Null /\ ~InAuthGroup(segs) THEN "/sign-in"
  ELSE IF u # Null /\ InAuthGroup(segs) THEN "/"
  ELSE "none"

\* (mutant) a signed-in user in the auth group is sent to the other auth screen
GuardDecision_OtherAuthScreen(u, segs, ready) ==
  IF ~ready THEN "none"
  ELSE IF u = Null /\ ~InAuthGroup(segs) THEN "/sign-in"
  ELSE IF u # Null /\ InAuthGroup(segs)
    THEN (IF segs[2] = "sign-in" THEN "/sign-up" ELSE "/sign-in")
  ELSE "none"

\* (mutant) the second branch tests `user && !inAuthGroup`
GuardDecision_WrongGroup(u, segs, ready) ==
  IF ~ready THEN "none"
  ELSE IF u = Null /\ ~InAuthGroup(segs) THEN "/sign-in"
  ELSE IF u # Null /\ ~InAuthGroup(segs) THEN "/"
  ELSE "none"

\* What the effect of useProtectedRoute does: "none", or the path it gives
\* router.replace.
GuardDecision(u, segs, ready) ==
  IF ~ready THEN "none"
  ELSE IF u = Null /\ ~InAuthGroup(segs) THEN "/sign-in"
  ELSE IF u # Null /\ InAuthGroup(segs) THEN "/"
  ELSE "none"

\* The effect runs (on mount, and after user, segments or navigationState
\* changed); router.replace changes the route, hence the segments.
GuardEffect ==
  /\ guardDirty
  /\ redirected' = GuardDecision(user, Segments(route), navReady)
  /\ route' = IF redirected' = "none" THEN route ELSE redirected'
  /\ guardDirty' = (route' # route)
  /\ UNCHANGED <<authVars, navReady>>
  /\ UNCHANGED offClientVars

\* The root navigation state gets its key.
NavigationReady ==
  /\ ~navReady
  /\ navReady' = TRUE
  /\ guardDirty' = TRUE
  /\ UNCHANGED <<authVars, route, redirected>>
  /\ UNCHANGED offClientVars

\* The user follows a link of a rendered screen.
Navigate(r) ==
  /\ navReady
  /\ ~initializing
  /\ r # route
  /\ route' = r
  /\ guardDirty' = TRUE
  /\ UNCHANGED <<authVars, navReady, redirected>>
  /\ UNCHANGED offClientVars

\* ------------------------------------------------------ server: /auth group
\* (mutant) max: 6
authRouteMax_Six == 5 + 1

\* rateLimit({ max: 5, ... }) of authRoute
authRouteMax == 5

\* (mutant) countFailedRequest: true, as on the other two route groups
authRouteCountFailedRequest_Set == TRUE

\* authRoute's rateLimit sets no countFailedRequest
authRouteCountFailedRequest == FALSE

Keys == {"k1", "k2"}

\* The requests of the rate-limited register/login group: <<route, body>>.
\* A "malformed" body fails the route's schema; "wrong" is a wrong password.
AuthRequests ==
  { <<"/register", "valid">>, <<"/register", "malformed">>,
    <<"/login", "right">>, <<"/login", "wrong">>, <<"/login", "malformed">> }

NoCounter == [open |-> FALSE, count |-> 0]
NothingServed == [passed |-> 0, wrong |-> 0, req |-> <<"none", "none">>, last |-> "none"]

\* The limiter is the elysia-rate-limit plugin and the handlers are the
\* controllers registerUser / loginUser; neither is among the sources, so
\* both follow the design's RateLimiter and error taxonomy.
\*
\* RateLimiter.check(key): Blocked when the key's active window has used up
\* its maximum.
RateLimiterBlocks(counter, max) == counter.open /\ counter.count >= max

\* The counter after a request that was let through: a request outside an
\* active window opens one; the request is counted, or, with
\* countFailedRequest, counted only when it failed.
RateLimiterCount(counter, failed, countFailedRequest) ==
  LET base == IF counter.open THEN counter.count ELSE 0 IN
  [open |-> TRUE,
   count |-> IF countFailedRequest /\ ~failed THEN base ELSE base + 1]

\* What the handler answers to a request that was let through: the body is
\* validated against the route's schema, then registerUser / loginUser runs.
HandlerResponse(req) ==
  IF req[2] = "malformed" THEN "ValidationError"
  ELSE IF req[1] = "/login" /\ req[2] = "wrong" THEN "AuthenticationError"
  ELSE "ok"

Failed(resp) == resp \in {"ValidationError", "AuthenticationError"}

\* ---- the order in which a request of a route group goes through its hooks
\* What each group registers, in the order of its chain of calls; "body" is
\* the validation of the body against the schema given with the route.
Pipeline(group) ==
  CASE group = "auth" -> <<"errorHandler", "bearer", "rateLimit", "body", "handler">>
    [] group = "passwordReset" -> <<"bearer", "errorHandler", "rateLimit", "body", "handler">>
    [] group = "emailVerification" ->
         <<"bearer", "errorHandler", "deriveUser", "rateLimit", "body", "handler">>

\* The stage at which a request with this response stops.
LastStage(resp) ==
  CASE resp = "RateLimitExceeded" -> "rateLimit"
    [] resp = "ValidationError" -> "body"
    [] OTHER -> "handler"

\* The stages a request of the group runs, up to the one it stops at.
StagesRun(group, resp) ==
  LET p == Pipeline(group)
      n == CHOOSE i \in 1..Len(p) : p[i] = LastStage(resp)
  IN SubSeq(p, 1, n)

\* The stages that read or write user, session or token records:
\* deriveUser looks the bearer token's session and user up, the controllers
\* do the work of the route.
TouchesRecords(stage) == stage \in {"deriveUser", "handler"}

ServerInit ==
  /\ rateLimit = [k \in Keys |-> NoCounter]
  /\ served = [k \in Keys |-> NothingServed]
  /\ ran = <<>>

\* One request of key k to /auth/register or /auth/login.
AuthRequest(k, req) ==
  LET blocked == RateLimiterBlocks(rateLimit[k], authRouteMax)
      resp == IF blocked THEN "RateLimitExceeded" ELSE HandlerResponse(req)
      wrongPw == req = <<"/login", "wrong">>
  IN
  /\ rateLimit' = [rateLimit EXCEPT ![k] =
       IF blocked THEN @
       ELSE RateLimiterCount(@, Failed(resp), authRouteCountFailedRequest)]
  /\ served' = [served EXCEPT ![k] =
       [passed |-> IF blocked THEN @.passed ELSE @.passed + 1,
        wrong |-> IF blocked THEN @.wrong ELSE IF wrongPw THEN @.wrong + 1 ELSE 0,
        req |-> req,
        last |-> resp]]
  /\ ran' = StagesRun("auth", resp)
  /\ UNCHANGED <<clientVars, limitedVars, tokenVars, sessionVars>>

\* The window of key k elapses: its counter expires.
WindowElapses(k) ==
  /\ rateLimit[k].open
  /\ rateLimit' = [rateLimit EXCEPT ![k] = NoCounter]
  /\ served' = [served EXCEPT ![k] = NothingServed]
  /\ UNCHANGED <<clientVars, limitedVars, tokenVars, sessionVars, ran>>

\* ---- the two route groups whose limiter sets countFailedRequest
\* passwordResetRoute and emailVerificationRoute: rateLimit({ max: 3 })
limitedRouteMax == 3

\* (mutant) the limiter without countFailedRequest, as on authRoute
limitedRouteCountFailedRequest_Unset == FALSE

\* passwordResetRoute and emailVerificationRoute: countFailedRequest: true
limitedRouteCountFailedRequest == TRUE

\* How many successful requests one window of one counter is followed for.
MaxOk == 3

\* Each route group has its own limiter, each limiter one counter per key:
\* two clients on the password-reset group, one of them also on the
\* e-mail-verification group.
Scopes ==
  { <<"passwordReset", "k1">>, <<"passwordReset", "k2">>,
    <<"emailVerification", "k1">> }

\* The requests of the two groups: <<group, route, what was sent>>.
LimitedRequests ==
  { <<"passwordReset", "/reset-password", "valid">>,
    <<"passwordReset", "/reset-password", "malformed">>,
    <<"passwordReset", "/reset-password/:token", "valid">>,
    <<"passwordReset", "/reset-password/:token", "badToken">>,
    <<"emailVerification", "/email-verification", "valid">>,
    <<"emailVerification", "/email-verification", "malformed">> }

NothingLimited == [ok |-> 0, failed |-> 0, last |-> "none"]

\* What the handler answers to a request that was let through.
LimitedResponse(req) ==
  CASE req[3] = "valid" -> "ok"
    [] req[3] = "malformed" -> "ValidationError"
    [] req[3] = "badToken" -> "TokenError"

LimitedFailed(resp) == resp \in {"ValidationError", "TokenError"}

LimitedInit ==
  /\ failLimit = [s \in Scopes |-> NoCounter]
  /\ failServed = [s \in Scopes |-> NothingLimited]

\* One request of key k to a route of the two groups.
LimitedRequest(k, req) ==
  LET s == <<req[1], k>>
      blocked == RateLimiterBlocks(failLimit[s], limitedRouteMax)
      resp == IF blocked THEN "RateLimitExceeded" ELSE LimitedResponse(req)
  IN
  /\ s \in Scopes
  /\ (resp = "ok") => failServed[s].ok < MaxOk
  /\ failLimit' = [failLimit EXCEPT ![s] =
       IF blocked THEN @
       ELSE RateLimiterCount(@, LimitedFailed(resp), limitedRouteCountFailedRequest)]
  /\ failServed' = [failServed EXCEPT ![s] =
       [ok |-> IF resp = "ok" THEN @.ok + 1 ELSE @.ok,
        failed |-> IF LimitedFailed(resp) THEN @.failed + 1 ELSE @.failed,
        last |-> resp]]
  /\ ran' = StagesRun(req[1], resp)
  /\ UNCHANGED <<clientVars, serverVars, tokenVars, sessionVars>>

\* The window of one counter elapses: the counter expires.
LimitedWindowElapses(s) ==
  /\ failLimit[s].open
  /\ failLimit' = [failLimit EXCEPT ![s] = NoCounter]
  /\ failServed' = [failServed EXCEPT ![s] = NothingLimited]
  /\ UNCHANGED <<clientVars, serverVars, tokenVars, sessionVars, ran>>

\* ---- single-use tokens: /auth/reset-password/:token, /auth/email-verification
\* The controllers (passwordResetToken, emailVerification) and the token
\* store are not among the sources; the records and the two operations below
\* follow the design's TokenService.
Tokens == {"t1", "t2"}
Purposes == {"reset", "verify"}

\* How many confirm requests present one token.
MaxConfirms == 2

NoToken == [user |-> "none", purpose |-> "none", state |-> "none"]
NoAnswers == [ok |-> 0, invalid |-> 0]

TokenInit ==
  /\ tokens = [t \in Tokens |-> NoToken]
  /\ effects = [t \in Tokens |-> 0]
  /\ pending = EmptyBag
  /\ answers = [t \in Tokens |-> NoAnswers]

\* issueSingleUseToken(userId, purpose): a prior unused token of the same
\* user and purpose is invalidated, then the new one is live.
IssueSingleUseToken(t, u, p) ==
  /\ tokens[t].state = "none"
  /\ tokens' = [x \in Tokens |->
       IF x = t THEN [user |-> u, purpose |-> p, state |-> "active"]
       ELSE IF tokens[x].state = "active" /\ tokens[x].user = u /\ tokens[x].purpose = p
            THEN [tokens[x] EXCEPT !.state = "superseded"]
            ELSE tokens[x]]
  /\ UNCHANGED <<effects, pending, answers>>
  /\ UNCHANGED <<clientVars, serverVars, limitedVars, sessionVars, ran>>

\* expiresAt passes for an unused token.
TokenExpires(t) ==
  /\ tokens[t].state = "active"
  /\ tokens' = [tokens EXCEPT ![t].state = "expired"]
  /\ UNCHANGED <<effects, pending, answers>>
  /\ UNCHANGED <<clientVars, serverVars, limitedVars, sessionVars, ran>>

\* A confirm request presenting token t for purpose p reaches the server.
ConfirmArrives(t, p) ==
  /\ CopiesIn(<<t, "reset">>, pending) + CopiesIn(<<t, "verify">>, pending)
       + answers[t].ok + answers[t].invalid < MaxConfirms
  /\ pending' = pending (+) SetToBag({<<t, p>>})
  /\ UNCHANGED <<tokens, effects, answers>>
  /\ UNCHANGED <<clientVars, serverVars, limitedVars, sessionVars, ran>>

\* consumeSingleUseToken(token, purpose): not used, not expired, same purpose
ConsumeSingleUseToken(tok, purpose) ==
  IF tok.state = "active" /\ tok.purpose = purpose THEN "ok" ELSE "Invalid"

\* (mutant) a successful consumption that leaves the token unused
MarkUsed_Not(tok) == tok

\* the mark-used step of a successful consumption
MarkUsed(tok) == [tok EXCEPT !.state = "used"]

\* The server handles one of the confirm requests in flight: the token is
\* consumed and, in the same atomic step, the side effect of its purpose is
\* performed; a token that does not pass is answered Invalid and nothing
\* changes.
ConfirmRuns(q) ==
  LET t == q[1]
      result == ConsumeSingleUseToken(tokens[t], q[2])
  IN
  /\ BagIn(q, pending)
  /\ pending' = pending (-) SetToBag({q})
  /\ tokens' = [tokens EXCEPT ![t] = IF result = "ok" THEN MarkUsed(@) ELSE @]
  /\ effects' = [effects EXCEPT ![t] = IF result = "ok" THEN @ + 1 ELSE @]
  /\ answers' = [answers EXCEPT ![t] =
       IF result = "ok" THEN [@ EXCEPT !.ok = @ + 1]
       ELSE [@ EXCEPT !.invalid = @ + 1]]
  /\ UNCHANGED <<clientVars, serverVars, limitedVars, sessionVars, ran>>

\* ---- sessions: /auth/logout, /auth/logout-all
\* The controllers (logout, logoutAll) and the session store are not among
\* the sources; the records and the operations below follow the design's
\* TokenService.
SessionIds == {"s1", "s2", "s3"}

\* How many logout-all calls of one user are followed.
MaxSweeps == 2

\* `born` is the number of logout-all calls of the user served before the
\* session was issued.
NoSession == [user |-> "none", born |-> 0, state |-> "none"]

SessionInit ==
  /\ sessions = [s \in SessionIds |-> NoSession]
  /\ sweeps = [u \in Users |-> 0]

\* issueSession(userId), on a successful register or login
IssueSession(s, u) ==
  /\ sessions[s].state = "none"
  /\ sessions' = [sessions EXCEPT ![s] =
       [user |-> u, born |-> sweeps[u], state |-> "valid"]]
  /\ UNCHANGED sweeps
  /\ UNCHANGED <<clientVars, serverVars, limitedVars, tokenVars, ran>>

\* validateSession(token): the owning user, or Invalid
ValidateSession(s) ==
  IF sessions[s].state = "valid" THEN sessions[s].user ELSE "Invalid"

\* POST /auth/logout with the bearer token of session s: revokeSession
Logout(s) ==
  /\ ValidateSession(s) # "Invalid"
  /\ sessions' = [sessions EXCEPT ![s].state = "revoked"]
  /\ UNCHANGED sweeps
  /\ UNCHANGED <<clientVars, serverVars, limitedVars, tokenVars, ran>>

\* (mutant) a sweep that stops after the caller's own session
SweptBy_OnlyCaller(caller, x) == x = caller

\* the sessions a logout-all of `caller` revokes: every one of its user
SweptBy(caller, x) == sessions[x].user = sessions[caller].user

\* POST /auth/logout-all with the bearer token of session s:
\* revokeAllSessions(userId), one atomic sweep over the user's sessions.
LogoutAll(s) ==
  LET u == ValidateSession(s) IN
  /\ u # "Invalid"
  /\ sweeps[u] < MaxSweeps
  /\ sessions' = [x \in SessionIds |->
       IF sessions[x].state = "valid" /\ SweptBy(s, x)
       THEN [sessions[x] EXCEPT !.state = "swept"]
       ELSE sessions[x]]
  /\ sweeps' = [sweeps EXCEPT ![u] = @ + 1]
  /\ UNCHANGED <<clientVars, serverVars, limitedVars, tokenVars, ran>>

\* ------------------------------------------------------------------ specs
vars == <<clientVars, offClientVars>>

Init == ClientInit /\ ServerInit /\ LimitedInit /\ TokenInit /\ SessionInit

\* The steps of the auth calls in flight.
CallSteps ==
  \/ \E c \in Calls, res \in Users : SignInApiOk(c, res)
  \/ \E c \in Calls, e \in ApiFailures : SignInApiFail(c, e)
  \/ \E c \in Calls, r \in SetSecureValueResults : SignInWrite(c, r)
  \/ \E c \in Calls : SignInResume(c)
  \/ \E c \in Calls : SignOutApiOk(c)
  \/ \E c \in Calls : SignOutApiFail(c)
  \/ \E c \in Calls, r \in DeleteSecureValueResults : SignOutDelete(c, r)
  \/ \E c \in Calls : SignOutResume(c)

\* The client's auth state: rehydration, the auth calls, restarts. The route
\* guard reads `user` and writes only the route, which no auth call reads; it
\* is left to SpecGuard.
Next ==
  \/ GetUserRead
  \/ GetUserResume
  \/ \E k \in OpKinds : Invoke(k, MaxOps)
  \/ CallSteps
  \/ AppRestart("/")

\* The app is opened at "/".
InitAuth ==
  /\ Init
  /\ route = "/"

Spec == InitAuth /\ [][Next]_vars

\* The route guard, with the auth state it watches.
NextGuard ==
  \/ GetUserRead
  \/ GetUserResume
  \/ \E k \in OpKinds : Invoke(k, MaxGuardOps)
  \/ CallSteps
  \/ \E r \in StartRoutes : AppRestart(r)
  \/ GuardEffect
  \/ NavigationReady
  \/ \E r \in Routes : Navigate(r)

\* The app is opened with no session stored, or with a valid one: what a
\* malformed stored value does to `user` is the same as a missing one.
InitGuard ==
  /\ Init
  /\ store \in {NoValue, JSONstringify("u1")}

SpecGuard == InitGuard /\ [][NextGuard]_vars

\* The provider's auth state, with the provider unmounted at any point.
NextTeardown ==
  \/ GetUserRead
  \/ GetUserResume
  \/ \E k \in OpKinds : Invoke(k, MaxGuardOps)
  \/ CallSteps
  \/ AppRestart("/")
  \/ Teardown

SpecTeardown == InitAuth /\ [][NextTeardown]_vars

\* The client against the server's /auth/logout, with no failure of the
\* network or of the store during a signOut. (The later steps of signOut,
\* SignOutDelete and SignOutResume, need API.post to resolve.)
NextLogout ==
  \/ GetUserRead
  \/ GetUserResume
  \/ \E k \in OpKinds : Invoke(k, MaxGuardOps)
  \/ \E c \in Calls, res \in Users : SignInApiOk(c, res)
  \/ \E c \in Calls, e \in ApiFailures : SignInApiFail(c, e)
  \/ \E c \in Calls, r \in SetSecureValueResults : SignInWrite(c, r)
  \/ \E c \in Calls : SignInResume(c)
  \/ \E c \in Calls : LogoutAnswered(c)
  \/ AppRestart("/")

SpecLogout == InitAuth /\ [][NextLogout]_vars

\* The server's rate-limited /auth group, with the client at rest.
InitServer ==
  /\ Init
  /\ store = NoValue
  /\ route = "/"

NextServer ==
  \/ \E k \in Keys, req \in AuthRequests : AuthRequest(k, req)
  \/ \E k \in Keys : WindowElapses(k)

SpecServer == InitServer /\ [][NextServer]_vars

\* The user store under its direct callers.
NextStore ==
  \/ ReadUser
  \/ \E f \in Updaters, a \in IsSignUpArgs : StoreSetUser(<<"function", f>>, a)
  \/ \E v \in Literals, a \in IsSignUpArgs : StoreSetUser(<<"value", v>>, a)
  \/ \E b \in {"true", "false"} : SetIsSignUp(b)

SpecStore == InitServer /\ [][NextStore]_vars

\* The two groups that count failed requests, with the client at rest.
NextLimited ==
  \/ \E k \in Keys, req \in LimitedRequests : LimitedRequest(k, req)
  \/ \E s \in Scopes : LimitedWindowElapses(s)

SpecLimited == InitServer /\ [][NextLimited]_vars

\* The single-use tokens and the confirm requests that present them.
NextToken ==
  \/ \E t \in Tokens, u \in Users, p \in Purposes : IssueSingleUseToken(t, u, p)
  \/ \E t \in Tokens : TokenExpires(t)
  \/ \E t \in Tokens, p \in Purposes : ConfirmArrives(t, p)
  \/ \E q \in BagToSet(pending) : ConfirmRuns(q)

SpecToken == InitServer /\ [][NextToken]_vars

\* The sessions: issued, revoked one by one, revoked in bulk.
NextSession ==
  \/ \E s \in SessionIds, u \in Users : IssueSession(s, u)
  \/ \E s \in SessionIds : Logout(s)
  \/ \E s \in SessionIds : LogoutAll(s)

SpecSession == InitServer /\ [][NextSession]_vars

\* ------------------------------------------------------------------ claims
Quiescent == ~initializing /\ ops = EmptyBag

SignInKinds == {"signIn", "createUser"}

\* what a call's log holds
Logged(what, log) == \E i \in DOMAIN log : log[i] = what
LoggedBefore(first, then, log) ==
  \E i, j \in DOMAIN log : i < j /\ log[i] = first /\ log[j] = then

\* an auth call of kind `kind` returns in this step
Returns(kinds) ==
  /\ BagCardinality(ops') < BagCardinality(ops)
  /\ lastDone'.kind \in kinds

\* C1: a signIn or createUser call sets AuthState.user only after its
\* setSecureValue has completed successfully: the user changes to a user
\* after startup only in the step in which such a call returns, and a call
\* that has called setUser had its write completed before; a call whose write
\* failed never sets the user.
C1_PersistBeforePublish ==
  /\ [](\A c \in Calls : ~Logged("setUser", c.log))
  /\ [](lastDone.kind \in SignInKinds =>
          (Logged("setUser", lastDone.log) => LoggedBefore("write", "setUser", lastDone.log)))
  /\ [][(~initializing /\ user' # user /\ user' # Null) =>
          (Returns(SignInKinds) /\ LoggedBefore("write", "setUser", lastDone'.log))]_vars

\* A signIn has returned having written the session and then set the user.
C1_Witness ==
  /\ lastDone.kind = "signIn"
  /\ lastDone.log = <<"api", "write", "setUser">>
  /\ user \in Users
  /\ store = JSONstringify(user)

\* C2: whenever rehydration has settled and no auth call is in flight,
\* AuthState.user is non-null iff the secure store holds a value under
\* USER_SESSION_KEY. (The claim speaks of every reachable state; this is its
\* reading at the states between operations, and it fails there already.)
C2_UserIffStored ==
  Quiescent => (user # Null <=> store # NoValue)

\* C3: the effect of useProtectedRoute issues no redirect while
\* navigationState.key is unset.
C3_NoRedirectBeforeReady ==
  [][GuardEffect => (navReady \/ (redirected' = "none" /\ route' = route))]_vars

\* The effect has run before navigation was ready, in a state where it
\* redirects once ready, and did nothing.
C3_Witness ==
  /\ ~navReady
  /\ ~guardDirty
  /\ redirected = "none"
  /\ \/ user = Null /\ ~InAuthGroup(Segments(route))
     \/ user # Null /\ InAuthGroup(Segments(route))

\* C4: with navigation ready, what the guard does is decided by (user, route
\* group) alone: null outside the auth group -> /sign-in; non-null inside it
\* -> /; otherwise nothing.
C4_GuardTable ==
  [][(GuardEffect /\ navReady) =>
       LET inAuth == InAuthGroup(Segments(route)) IN
       /\ (user = Null /\ ~inAuth) => (redirected' = "/sign-in" /\ route' = "/sign-in")
       /\ (user # Null /\ inAuth) => (redirected' = "/" /\ route' = "/")
       /\ (user = Null /\ inAuth) => (redirected' = "none" /\ route' = route)
       /\ (user # Null /\ ~inAuth) => (redirected' = "none" /\ route' = route)
    ]_vars

\* The guard has just sent a signed-in user from the auth group to "/".
C4_Witness ==
  /\ navReady
  /\ user \in Users
  /\ redirected = "/"
  /\ route = "/"

\* C5: signOut sets the user to null only when the server call succeeded and
\* the delete returned true; a signOut that fails at either step leaves the
\* user as it was and toasts "Failed to logout".
C5_SignOutClearsOnlyOnSuccess ==
  [][Returns({"signOut"}) =>
       IF Logged("api", lastDone'.log) /\ Logged("deleted", lastDone'.log)
         THEN user' = Null /\ Logged("setUser", lastDone'.log)
         ELSE /\ user' = user
              /\ ~Logged("setUser", lastDone'.log)
              /\ lastDone'.toast = "Failed to logout"
    ]_vars

\* A signOut of a signed-in user failed at the delete: the user is still
\* there, and the failure was toasted.
C5_Witness ==
  /\ lastDone.kind = "signOut"
  /\ Logged("api", lastDone.log)
  /\ ~Logged("deleted", lastDone.log)
  /\ lastDone.toast = "Failed to logout"
  /\ user \in Users
  /\ ops = EmptyBag

\* C6: every signOut call invokes deleteSecureValue, whatever the outcome of
\* the server call.
C6_DeleteAlwaysAttempted ==
  lastDone.kind = "signOut" => Logged("deleteCall", lastDone.log)

\* C7: rehydration from a missing or malformed stored value ends with
\* user = null, no error raised, and nothing stored under USER_SESSION_KEY.
\* (Read once getUser has settled and before any auth call: the store then
\* holds what rehydration left of the value it found.)
C7_MalformedIsNoSession ==
  ( /\ getUserPc \in {"resolved", "rejected"}
    /\ ops = EmptyBag
    /\ lastDone = NoCall
    /\ store = NoValue \/ ~GetUserParses(store) )
  => ( /\ user = Null
       /\ getUserPc = "resolved"
       /\ store = NoValue )

\* C8: no auth call starts while another one is pending.
C8_NoConcurrentAuthCalls ==
  BagCardinality(ops) <= 1

\* C9: for every key of the register/login group (max = 5): at most 5
\* requests are let through within one window and the counter never exceeds
\* 5; once 5 were let through, every further request of the window is
\* Blocked; a request after the window has elapsed is let through and counted
\* as the first of a new window.
C9_RateLimit ==
  /\ [](\A k \in Keys : served[k].passed <= 5 /\ rateLimit[k].count <= 5)
  /\ [][\A k \in Keys : \A req \in AuthRequests :
          AuthRequest(k, req) =>
            /\ (rateLimit[k].open /\ served[k].passed >= 5)
               => (served'[k].last = "RateLimitExceeded" /\ rateLimit'[k] = rateLimit[k])
            /\ ~rateLimit[k].open
               => (served'[k].last # "RateLimitExceeded" /\ rateLimit'[k].count = 1)
       ]_vars

\* A key had 5 requests let through and its next one Blocked.
C9_Witness ==
  \E k \in Keys :
    /\ served[k].passed = 5
    /\ rateLimit[k].count = 5
    /\ served[k].last = "RateLimitExceeded"

\* C10: every wrong-password login that is let through increments its key's
\* counter, and after 5 consecutive wrong-password logins of a key within a
\* window, its next login in that window is answered RateLimitExceeded, with
\* the correct password too.
C10_WrongPasswordsCount ==
  [][\A k \in Keys :
       /\ (AuthRequest(k, <<"/login", "wrong">>) /\ served'[k].last = "AuthenticationError")
          => rateLimit'[k].count = (IF rateLimit[k].open THEN rateLimit[k].count ELSE 0) + 1
       /\ (AuthRequest(k, <<"/login", "right">>) /\ served[k].wrong >= 5)
          => served'[k].last = "RateLimitExceeded"
    ]_vars

\* After 5 wrong-password logins a login with the correct password was
\* answered RateLimitExceeded.
C10_Witness ==
  \E k \in Keys :
    /\ served[k].wrong = 5
    /\ served[k].req = <<"/login", "right">>
    /\ served[k].last = "RateLimitExceeded"


\* C11: on the routes whose limiter sets countFailedRequest (max 3) only
\* failed requests increment the counter: the counter of a key always equals
\* the number of failed requests its window has let through, whatever the
\* number of successful ones, and a request is answered RateLimitExceeded
\* only after three failures.
C11_OnlyFailuresCount ==
  \A s \in Scopes :
    /\ failLimit[s].count = failServed[s].failed
    /\ failLimit[s].count <= limitedRouteMax
    /\ (failServed[s].last = "RateLimitExceeded") =>
         failServed[s].failed = limitedRouteMax

\* successes before and after two failures, and the counter stands at two
C11_Witness ==
  \E s \in Scopes :
    /\ failServed[s].ok = MaxOk
    /\ failServed[s].failed = 2
    /\ failServed[s].last = "ok"
    /\ failLimit[s].count = 2

C13_AtomicSweep ==
  /\ [](\A s \in SessionIds :
         /\ (sessions[s].state # "none" /\ sessions[s].born < sweeps[sessions[s].user])
              => ValidateSession(s) = "Invalid"
         /\ (sessions[s].state = "swept")
              => sessions[s].born < sweeps[sessions[s].user])
  /\ [][\A u \in Users : sweeps'[u] # sweeps[u] =>
          \A s \in SessionIds :
            IF sessions[s].user = u /\ sessions[s].state = "valid"
            THEN sessions'[s].state = "swept"
            ELSE sessions'[s] = sessions[s]]_vars

\* after a logout-all of u1 that revoked two sessions, a session issued to
\* u1 later and a session of u2 are valid
C13_Witness ==
  \E a, b, c \in SessionIds :
    /\ sessions[a].state = "swept" /\ sessions[a].user = "u1"
    /\ sessions[b].state = "valid" /\ sessions[b].user = "u1"
    /\ sessions[b].born = 1 /\ sweeps["u1"] = 1
    /\ sessions[c].state = "valid" /\ sessions[c].user = "u2"

\* C14: on every guarded endpoint the rate-limit check is the first step: a
\* request answered RateLimitExceeded has gone through no stage that
\* validates the body, derives the user from the bearer token or runs the
\* handler, so it has read and written no user, session or token record.
C14_LimiterFirst ==
  (ran # <<>> /\ ran[Len(ran)] = "rateLimit") =>
    \A i \in 1..Len(ran) :
      /\ ran[i] \notin {"body", "deriveUser", "handler"}
      /\ ~TouchesRecords(ran[i])

\* C15: signIn, createUser and signOut turn every failure into a toast and
\* return normally, and a failed call leaves AuthState.user as it was: a
\* call that returns without both of its awaits having succeeded (the API
\* rejected with an APIError or with anything else, or the secure store
\* failed) ends in its catch block with a toast and has not written the
\* user, a call that succeeded toasts nothing, and no step of a call before
\* its return writes the user.
C15_FailuresBecomeToasts ==
  [][/\ Returns(OpKinds) =>
          LET done == lastDone'
              second == IF done.kind = "signOut" THEN "deleted" ELSE "write"
              succeeded == Logged("api", done.log) /\ Logged(second, done.log)
          IN IF succeeded
               THEN done.toast = "none" /\ done.log[Len(done.log)] = "setUser"
               ELSE /\ user' = user
                    /\ ~Logged("setUser", done.log)
                    /\ done.log[Len(done.log)] = "toast"
                    /\ done.toast \in {"api error message", "Something went wrong",
                                       "Failed to logout"}
     /\ (ops' # ops /\ BagCardinality(ops') = BagCardinality(ops)) => user' = user
    ]_vars

\* a signIn of a signed-in client whose API call succeeded and whose write
\* to the secure store failed: toasted, the user is who it was
C15_Witness ==
  /\ lastDone.kind = "signIn"
  /\ Logged("api", lastDone.log)
  /\ ~Logged("write", lastDone.log)
  /\ lastDone.toast = "Something went wrong"
  /\ user = "u1"
  /\ ops = EmptyBag

\* the user after the first n calls of setLog, starting from the store's
\* initial null: each function applied to the result of the calls before it
RECURSIVE Composed(_)
Composed(n) ==
  IF n = 0 THEN Null
  ELSE IF setLog[n][1] = "function"
         THEN ApplyUpdater(setLog[n][2], Composed(n - 1))
         ELSE setLog[n][2]

\* C16: setUser called with a function applies it to the user the store
\* holds at the moment of the call, not to a value read earlier: the user is
\* the result of the calls composed in call order, none lost, and a
\* subscriber was handed, in order, the result of each call.
C16_UpdatersCompose ==
  /\ user = Composed(Len(setLog))
  /\ Len(seen) = Len(setLog)
  /\ \A n \in 1..Len(seen) : seen[n] = Composed(n)

\* two updater calls after a component read the user, and the value it read
\* is no longer the store's
C16_Witness ==
  /\ Len(setLog) = 3
  /\ setLog[2] = <<"function", "swap">>
  /\ setLog[3] = <<"function", "swap">>
  /\ captured = "u1"
  /\ seen = <<"u1", "u2", "u1">>
  /\ user = "u1"

\* C17: an auth call (signIn, createUser, signOut or the rehydration) that
\* is still pending when its provider is torn down never publishes to
\* AuthState afterwards: while the provider is unmounted the user does not
\* change.
C17_NoPublishAfterTeardown ==
  [][(~mounted /\ ~mounted') => user' = user]_vars

\* C18: at app start the guard issues no redirect until the rehydration
\* (getUser) has settled, whichever of navigation readiness and the read of
\* the secure store completes first; so a client with a valid stored session
\* is never sent to /sign-in during startup.
C18_NoRedirectBeforeRehydration ==
  initializing => redirected = "none"

\* C19: the guard converges: with navigation ready, a redirect of the guard
\* goes to /sign-in for a null user and to / for a non-null one, the target
\* lies where that user needs no redirect (inside the auth group for null,
\* outside it otherwise), and the guard's next run, with the user unchanged,
\* redirects no further; so it issues at most one redirect and never cycles
\* between /sign-in and /.
C19_GuardConverges ==
  [][(GuardEffect /\ navReady /\ redirected' # "none") =>
       /\ redirected' = (IF user = Null THEN "/sign-in" ELSE "/")
       /\ route' = redirected'
       /\ (user = Null) <=> InAuthGroup(Segments(route'))
       /\ GuardDecision(user', Segments(route'), navReady') = "none"
    ]_vars

\* the guard has just sent a signed-out client to /sign-in and is due to run
\* again
C19_Witness ==
  /\ navReady
  /\ user = Null
  /\ redirected = "/sign-in"
  /\ route = "/sign-in"
  /\ guardDirty
  /\ ~initializing

\* C20: signOut can succeed: with no failure of the network or of the store,
\* the request signOut sends to /auth/logout satisfies that endpoint's
\* contract, so a signOut that has returned has left the user null and
\* nothing stored, and has toasted nothing.
C20_SignOutSucceeds ==
  /\ \A c \in Calls : c.kind = "signOut" => RouteAccepts(RequestOf(c.kind))
  /\ (lastDone.kind = "signOut") =>
       /\ user = Null
       /\ store = NoValue
       /\ lastDone.toast = "none"
====
